---- MODULE Spec2Model ----
(***************************************************************************)
(* Model of src/fitbit_api.py: the Fitbit client class with its OAuth2     *)
(* token refresh (refresh_tokens), the expiry check wrapped around         *)
(* get_resource (check_token_expiry) and the rate limited make_request     *)
(* (@sleep_and_retry over @limits(calls=125, period=3600) of the ratelimit *)
(* package).                                                               *)
(*                                                                         *)
(* Time.  Every timestamp of the model (expires_at, last_reset, wake_at,   *)
(* the expires_at entry of a token dict) is kept as an offset, in seconds, *)
(* from the current reading of the clock: time.time() reads `now` in every *)
(* state and the passing of time (Tick) moves every stored timestamp into  *)
(* the past.  The code only ever compares a timestamp with the clock or    *)
(* subtracts the two, so a timestamp that lies further in the past than    *)
(* the comparison can tell is kept at the floor of its kind.               *)
(*                                                                         *)
(* Threads.  Each element of Threads is a caller of the one client         *)
(* instance; a call is cut into steps at the places where the interpreter  *)
(* can switch threads between two accesses of shared state.                *)
(***************************************************************************)
EXTENDS Integers, Sequences, FiniteSets, TLC

\* ---------------------------------------------------------------- constants
CALLS == 125
PERIOD == 3600
HTTP_OK == 200

\* ------------------------------------------------------------------- bounds
Quantum == 1800
MaxGen == 2
MaxCalls == 2

Threads == {1, 2}
Instances == {1, 2}
ExpiresIns == {Quantum}
Unlimited == 0 - 1

\* ------------------------------------------------------------------ helpers
None == << >>
Some(x) == << x >>
Max(a, b) == IF a >= b THEN a ELSE b

now == 0

TokenFields == {"access_token", "refresh_token", "expires_in"}
EmptyDict == [k \in {} |-> 0]

\* The JSON object of a token response of generation g: the server's g-th
\* access token and g-th refresh token, valid for e seconds, with only the
\* members named in present.
Body(g, e, present) ==
    [k \in present |-> IF k = "expires_in" THEN e ELSE g]

Bodies(g) == {Body(g, e, p) : e \in ExpiresIns, p \in SUBSET TokenFields}

\* What the token endpoint can answer when the next tokens it issues are of
\* generation g: a token record (any member may be missing), an error status
\* with a JSON error object that has none of the token members, or a body
\* that is not JSON.
ErrorStatuses == {400}
Responses(g) ==
    [status : {HTTP_OK}, json : {TRUE}, body : Bodies(g)]
    \cup [status : ErrorStatuses, json : {TRUE}, body : {EmptyDict}]
    \cup [status : {HTTP_OK} \cup ErrorStatuses, json : {FALSE}, body : {EmptyDict}]

\* The statuses a resource endpoint answers with.
Statuses == {HTTP_OK, 204, 404}

VARIABLES
    client_id,             \* self.client_id
    client_secret,         \* self.client_secret
    access_token,          \* self.access_token
    refresh_token,         \* self.refresh_token
    expires_at,            \* self.expires_at: None or Some(timestamp)
    token_update_method,   \* self.token_update_method is set
    stored,                \* the dict last stored by token_update_method
    num_calls,             \* RateLimitDecorator.num_calls
    last_reset,            \* RateLimitDecorator.last_reset
    pc,                    \* per thread: where its call stands
    op,                    \* per thread: the method it called
    tokens,                \* per thread: the local dict `tokens`
    headers,               \* per thread: the local `headers`
    wake_at,               \* per thread: end of its time.sleep
    result,                \* per thread: how its call ended
    trail,                 \* per thread: what its call has done so far
    workload,              \* calls the application has yet to make
    history,               \* HTTP requests of make_request in the last PERIOD
    issued,                \* token records the token endpoint has issued
    instance,              \* per thread: the Fitbit object it makes its calls on
    admitted               \* per Fitbit object: its calls the limiter has let
                           \* through since the limiter's last reset

vars == << client_id, client_secret, access_token, refresh_token, expires_at,
           token_update_method, stored, num_calls, last_reset, pc, op, tokens,
           headers, wake_at, result, trail, workload, history, issued,
           instance, admitted >>

creds == << access_token, refresh_token, expires_at >>
config == << client_id, client_secret, token_update_method >>
limiter == << num_calls, last_reset, admitted >>

NoResult == [kind |-> "none", status |-> 0]
\* What a call has done so far: the expiry check's verdict, the requests sent
\* to the token endpoint and the refresh token they carried, the fields of
\* self written by its refresh, the calls of token_update_method, the HTTP
\* requests sent by make_request and the Authorization token they carried,
\* the rate limit rejections it slept through.  valid: expires_at was
\* in the future when the call began; changed: the written fields whose
\* value the write changed; intact: no other thread has written a field of
\* self since this call's refresh began to write; sleeper: the call of
\* another thread was asleep in the rate limiter when this call began.
NoTrail == [valid |-> FALSE, posts |-> 0, sent |-> None, wrote |-> {},
            changed |-> {}, intact |-> TRUE, cbs |-> 0, gets |-> 0,
            refreshed |-> FALSE, slept |-> 0, sleeper |-> FALSE]

\* ------------------------------------------------------- state after __init__
\* The arguments of Fitbit(...): the tokens the caller loaded from its
\* storage (generation 0), an expires_at that is missing or in the future
\* (it is in the past once the clock has moved on), with or without a
\* token_update_method.
InitCreds ==
    /\ client_id = "client_id"
    /\ client_secret = "client_secret"
    /\ access_token = 0
    /\ refresh_token = 0
    /\ expires_at \in {None, Some(now + Quantum)}
    /\ token_update_method \in BOOLEAN
    /\ stored = None
    /\ issued = 0

\* No call has begun.
InitCalls ==
    /\ pc = [t \in Threads |-> "idle"]
    /\ op = [t \in Threads |-> "none"]
    /\ tokens = [t \in Threads |-> EmptyDict]
    /\ headers = [t \in Threads |-> None]
    /\ wake_at = [t \in Threads |-> now]
    /\ result = [t \in Threads |-> NoResult]
    /\ trail = [t \in Threads |-> NoTrail]

\* Every thread makes its calls on the same client.
InitThreads ==
    /\ instance = [t \in Threads |-> 1]
    /\ InitCalls

\* RateLimitDecorator.__init__, run once when the class body is executed.
InitLimiter ==
    /\ num_calls = 0
    /\ last_reset = now
    /\ admitted = [i \in Instances |-> 0]
    /\ history = << >>

\* The limiter belongs to the class and not to the instance: by the time a
\* client is constructed it has counted the calls made in the process since
\* its window began, here all but one of the window's budget, made on
\* another client.
PriorCalls == CALLS - 1
InitUsedLimiter ==
    /\ num_calls = PriorCalls
    /\ last_reset = now
    /\ admitted = [i \in Instances |-> IF i = 2 THEN PriorCalls ELSE 0]
    /\ history = << >>

\* ------------------------------------------------------------ small helpers
\* The call of t returns or raises: its locals are gone.
Finish(t, kind, status) ==
    /\ pc' = [pc EXCEPT ![t] = "done"]
    /\ result' = [result EXCEPT ![t] = [kind |-> kind, status |-> status]]
    /\ tokens' = [tokens EXCEPT ![t] = EmptyDict]
    /\ headers' = [headers EXCEPT ![t] = None]
    /\ wake_at' = [wake_at EXCEPT ![t] = now]

Goto(t, label) ==
    /\ pc' = [pc EXCEPT ![t] = label]
    /\ UNCHANGED result

\* (as Free, with one lock of the client held for the length of every call)
FreeAlone(t) == \A u \in Threads : pc[u] \in {"idle", "done"}
\* A thread that is not inside a call can make one.
Free(t) == pc[t] = "idle"
CanCall == workload # 0
Spend(w) == IF w = Unlimited THEN w ELSE w - 1
Saturate(n, cap) == IF n >= cap THEN cap ELSE n + 1

\* expires_at is set and strictly later than the clock.
InFuture(ea) == ea # None /\ ea[1] > now

\* ------------------------------------------------------- check_token_expiry
\* (as Expired, with the test left out: every call refreshes)
RefreshAlways(ea) == TRUE
\* (as Expired, with the refresh left to the call that is already in it)
ExpiredUnlessRefreshing(ea) ==
    /\ ea = None \/ now >= ea[1]
    /\ \A u \in Threads :
           pc[u] \notin {"line45", "line50", "line59", "line60", "line61", "line64"}
\* (as Expired, with > for >=)
ExpiredStrict(ea) == ea = None \/ now > ea[1]

\* line 70: (not self.expires_at) or (time.time() >= float(self.expires_at))
Expired(ea) == ea = None \/ now >= ea[1]

\* get_resource(url) is called: the wrapper of check_token_expiry runs its
\* test and either enters refresh_tokens or goes on to the wrapped method.
CallGetResource(t) ==
    /\ Free(t)
    /\ CanCall
    /\ workload' = Spend(workload)
    /\ op' = [op EXCEPT ![t] = "get_resource"]
    /\ trail' = [trail EXCEPT ![t] = [NoTrail EXCEPT
                      !.valid = InFuture(expires_at),
                      !.sleeper = \E u \in Threads \ {t} : pc[u] = "sleep"]]
    /\ pc' = [pc EXCEPT ![t] = IF Expired(expires_at) THEN "line45" ELSE "line108"]
    /\ result' = [result EXCEPT ![t] = NoResult]
    /\ UNCHANGED << creds, config, instance, stored, limiter, tokens, headers,
                    wake_at, history, issued >>

\* ------------------------------------------------------------ refresh_tokens
\* lines 45-50: the POST to the token endpoint, carrying self.refresh_token.
RefreshPost(t) ==
    /\ pc[t] = "line45"
    /\ trail' = [trail EXCEPT ![t].posts = @ + 1, ![t].sent = Some(refresh_token)]
    /\ Goto(t, "line50")
    /\ UNCHANGED << creds, config, instance, stored, limiter, op, tokens,
                    headers, wake_at, workload, history, issued >>

\* requests.post raises: there is no response.
RefreshTransportFails(t) ==
    /\ pc[t] = "line50"
    /\ Finish(t, "ConnectionError", 0)
    /\ UNCHANGED << creds, config, instance, stored, limiter, op, trail,
                    workload, history, issued >>

\* The generation of the tokens the endpoint issues next: every token record
\* carries new tokens (past MaxGen records, the last ones again).
NextGen == Saturate(issued, MaxGen)

\* lines 52-56 on the dict decoded from body b: tokens['expires_at'] is added.
WithExpiresAt(b) ==
    [k \in DOMAIN b \cup {"expires_at"} |->
        IF k = "expires_at" THEN now + b["expires_in"] ELSE b[k]]

\* The response r arrives; lines 52-56 decode it: response.json() raises on
\* a body that is not JSON, tokens['expires_in'] on a dict without it.
RefreshRecv(t, r) ==
    /\ pc[t] = "line50"
    /\ issued' = IF r.body # EmptyDict THEN Saturate(issued, MaxGen) ELSE issued
    /\ IF ~r.json
       THEN Finish(t, "JSONDecodeError", r.status)
       ELSE IF "expires_in" \notin DOMAIN r.body
       THEN Finish(t, "KeyError", r.status)
       ELSE /\ tokens' = [tokens EXCEPT ![t] = WithExpiresAt(r.body)]
            /\ Goto(t, "line59")
            /\ UNCHANGED << headers, wake_at >>
    /\ UNCHANGED << creds, config, instance, stored, limiter, op, trail,
                    workload, history >>

\* The trail of t after its refresh wrote value v over old in field f.
Wrote(t, f, old, v) ==
    [u \in Threads |->
        IF u = t
        THEN [trail[t] EXCEPT !.wrote = @ \cup {f},
                              !.changed = IF old = v THEN @ ELSE @ \cup {f}]
        ELSE IF pc[u] \in {"line60", "line61", "line64"}
        THEN [trail[u] EXCEPT !.intact = FALSE]
        ELSE trail[u]]

\* line 59: self.access_token = tokens['access_token']
Line59(t) ==
    /\ pc[t] = "line59"
    /\ IF "access_token" \in DOMAIN tokens[t]
       THEN /\ access_token' = tokens[t]["access_token"]
            /\ trail' = Wrote(t, "access_token", access_token, tokens[t]["access_token"])
            /\ Goto(t, "line60")
            /\ UNCHANGED << tokens, headers, wake_at >>
       ELSE /\ Finish(t, "KeyError", 0)
            /\ UNCHANGED << access_token, trail >>
    /\ UNCHANGED << refresh_token, expires_at, config, instance, stored,
                    limiter, op, workload, history, issued >>

\* line 60: self.refresh_token = tokens['refresh_token']
Line60(t) ==
    /\ pc[t] = "line60"
    /\ IF "refresh_token" \in DOMAIN tokens[t]
       THEN /\ refresh_token' = tokens[t]["refresh_token"]
            /\ trail' = Wrote(t, "refresh_token", refresh_token, tokens[t]["refresh_token"])
            /\ Goto(t, "line61")
            /\ UNCHANGED << tokens, headers, wake_at >>
       ELSE /\ Finish(t, "KeyError", 0)
            /\ UNCHANGED << refresh_token, trail >>
    /\ UNCHANGED << access_token, expires_at, config, instance, stored,
                    limiter, op, workload, history, issued >>

\* line 61: self.expires_at = tokens['expires_at']
Line61(t) ==
    /\ pc[t] = "line61"
    /\ expires_at' = Some(tokens[t]["expires_at"])
    /\ trail' = Wrote(t, "expires_at", expires_at, Some(tokens[t]["expires_at"]))
    /\ Goto(t, "line64")
    /\ UNCHANGED << access_token, refresh_token, config, instance, stored,
                    limiter, op, tokens, headers, wake_at, workload, history, issued >>

\* (as UpdateStored, with the call of token_update_method left out)
UpdateStoredSkipped(t) ==
    /\ pc[t] = "line64"
    /\ trail' = [trail EXCEPT ![t].refreshed = TRUE]
    /\ Goto(t, "line108")
    /\ tokens' = [tokens EXCEPT ![t] = EmptyDict]
    /\ UNCHANGED << creds, config, instance, stored, limiter, op, headers,
                    wake_at, workload, history, issued >>

\* lines 64-65: token_update_method(tokens) when one is set; refresh_tokens
\* then returns and the wrapper calls the wrapped get_resource.
UpdateStored(t) ==
    /\ pc[t] = "line64"
    /\ IF token_update_method
       THEN /\ stored' = Some(tokens[t])
            /\ trail' = [trail EXCEPT ![t].cbs = @ + 1, ![t].refreshed = TRUE]
       ELSE /\ trail' = [trail EXCEPT ![t].refreshed = TRUE]
            /\ UNCHANGED stored
    /\ Goto(t, "line108")
    /\ tokens' = [tokens EXCEPT ![t] = EmptyDict]
    /\ UNCHANGED << creds, config, instance, limiter, op, headers, wake_at,
                    workload, history, issued >>

\* (as UpdateFails, with the exception of token_update_method caught and
\* dropped: the call goes on to the wrapped get_resource)
UpdateFailsSwallowed(t) ==
    /\ pc[t] = "line64"
    /\ token_update_method
    /\ trail' = [trail EXCEPT ![t].cbs = @ + 1]
    /\ Goto(t, "line108")
    /\ tokens' = [tokens EXCEPT ![t] = EmptyDict]
    /\ UNCHANGED << creds, config, instance, stored, limiter, op, headers,
                    wake_at, workload, history, issued >>

\* line 65 when the caller's token_update_method raises.
UpdateFails(t) ==
    /\ pc[t] = "line64"
    /\ token_update_method
    /\ trail' = [trail EXCEPT ![t].cbs = @ + 1]
    /\ Finish(t, "CallbackError", 0)
    /\ UNCHANGED << creds, config, instance, stored, limiter, op, workload,
                    history, issued >>

\* -------------------------------------------------------------- get_resource
\* (as Authorization, with the scheme of the token request)
AuthorizationBasic(token) == << "Basic", token >>

\* line 108: headers = {'Authorization': 'Bearer {}'.format(self.access_token)}
Authorization(token) == << "Bearer", token >>

Line108(t) ==
    /\ pc[t] = "line108"
    /\ headers' = [headers EXCEPT ![t] = Some(Authorization(access_token))]
    /\ Goto(t, "limits")
    /\ UNCHANGED << creds, config, instance, stored, limiter, op, tokens,
                    wake_at, trail, workload, history, issued >>

\* ------------------------------------------------------------- make_request
\* make_request(...) called by the application itself, with its own headers.
CallMakeRequest(t) ==
    /\ Free(t)
    /\ CanCall
    /\ workload' = Spend(workload)
    /\ op' = [op EXCEPT ![t] = "make_request"]
    /\ trail' = [trail EXCEPT ![t] = NoTrail]
    /\ pc' = [pc EXCEPT ![t] = "limits"]
    /\ result' = [result EXCEPT ![t] = NoResult]
    /\ UNCHANGED << creds, config, instance, stored, limiter, tokens, headers,
                    wake_at, history, issued >>

\* ratelimit's RateLimitDecorator, @limits(calls=125, period=3600): the body
\* of its wrapper up to the call of the wrapped function runs under the
\* decorator's lock, one thread at a time.
period_remaining == PERIOD - (now - last_reset)
WindowElapsed == period_remaining <= 0
Counted == (IF WindowElapsed THEN 0 ELSE num_calls) + 1
\* (as OverLimit, with >= for >)
OverLimitEarly(n) == n >= CALLS
\* the limiter's test: if self.num_calls > self.clamped_calls
OverLimit(n) == n > CALLS

\* (as Attempt, without the limiter's lock: while another thread is at the
\* limiter too, the increment of the one can be lost under that of the other)
AttemptUnlocked(t) ==
    /\ num_calls' \in
           {Counted} \cup
           (IF \E u \in Threads \ {t} : pc[u] \in {"limits", "sleep"}
            THEN {Counted - 1} ELSE {})
    /\ last_reset' = IF WindowElapsed THEN now ELSE last_reset
    /\ admitted' = [i \in Instances |->
                       (IF WindowElapsed THEN 0 ELSE admitted[i])
                       + (IF i = instance[t] /\ ~OverLimit(Counted) THEN 1 ELSE 0)]
    /\ IF OverLimit(Counted)
       THEN /\ wake_at' = [wake_at EXCEPT ![t] = now + period_remaining]
            /\ trail' = [trail EXCEPT ![t].slept = Saturate(@, 2)]
            /\ Goto(t, "sleep")
       ELSE /\ Goto(t, "line79")
            /\ UNCHANGED << wake_at, trail >>
    /\ UNCHANGED << creds, config, instance, stored, op, tokens, headers,
                    workload, history, issued >>

\* (as Attempt, with the budget tested against the calls of the caller's own
\* client, as if each client had a limiter of its own)
AttemptOwnCount(t) ==
    LET own == (IF WindowElapsed THEN 0 ELSE admitted[instance[t]]) + 1 IN
    /\ num_calls' = Counted
    /\ last_reset' = IF WindowElapsed THEN now ELSE last_reset
    /\ admitted' = [i \in Instances |->
                       (IF WindowElapsed THEN 0 ELSE admitted[i])
                       + (IF i = instance[t] /\ ~OverLimit(own) THEN 1 ELSE 0)]
    /\ IF OverLimit(own)
       THEN /\ wake_at' = [wake_at EXCEPT ![t] = now + period_remaining]
            /\ trail' = [trail EXCEPT ![t].slept = Saturate(@, 2)]
            /\ Goto(t, "sleep")
       ELSE /\ Goto(t, "line79")
            /\ UNCHANGED << wake_at, trail >>
    /\ UNCHANGED << creds, config, instance, stored, op, tokens, headers,
                    workload, history, issued >>

\* One pass of the loop of @sleep_and_retry: the limiter counts the attempt;
\* its RateLimitException(period_remaining) is caught by the loop, which
\* calls time.sleep(period_remaining) and tries again; otherwise the body of
\* make_request is entered.
Attempt(t) ==
    /\ num_calls' = Counted
    /\ last_reset' = IF WindowElapsed THEN now ELSE last_reset
    /\ admitted' = [i \in Instances |->
                       (IF WindowElapsed THEN 0 ELSE admitted[i])
                       + (IF i = instance[t] /\ ~OverLimit(Counted) THEN 1 ELSE 0)]
    /\ IF OverLimit(Counted)
       THEN /\ wake_at' = [wake_at EXCEPT ![t] = now + period_remaining]
            /\ trail' = [trail EXCEPT ![t].slept = Saturate(@, 2)]
            /\ Goto(t, "sleep")
       ELSE /\ Goto(t, "line79")
            /\ UNCHANGED << wake_at, trail >>
    /\ UNCHANGED << creds, config, instance, stored, op, tokens, headers,
                    workload, history, issued >>

\* The first attempt of a call.
Limits(t) ==
    /\ pc[t] = "limits"
    /\ Attempt(t)

\* time.sleep has returned: the loop of sleep_and_retry tries again.
Retry(t) ==
    /\ pc[t] = "sleep"
    /\ now >= wake_at[t]
    /\ Attempt(t)

\* (as StatusOk, taking every 2xx status for a success)
StatusOkLax(status) == status < 300

\* line 81: the test on response.status_code
StatusOk(status) == status = HTTP_OK

\* (as Raise, with the exception caught by the loop of sleep_and_retry, as
\* if that caught every exception: the call is attempted again)
RaiseRetried(t, s) ==
    /\ Goto(t, "limits")
    /\ UNCHANGED << tokens, headers, wake_at >>

\* line 82: raise Exception('API response: {}'.format(response.status_code))
Raise(t, s) == Finish(t, "Exception", s)

\* lines 79-83: requests.request(*args, **kwargs) is answered with status s.
Request(t, s) ==
    /\ pc[t] = "line79"
    /\ trail' = [trail EXCEPT ![t].gets = @ + 1]
    /\ IF StatusOk(s) THEN Finish(t, "response", s) ELSE Raise(t, s)
    /\ UNCHANGED << creds, config, instance, stored, limiter, op, workload,
                    issued >>

Dispatch(t, s) ==
    /\ Request(t, s)
    /\ UNCHANGED history

\* The caller has the outcome of its call in hand and is free for its next
\* call: the record of the finished call is dropped.
Return(t) ==
    /\ pc[t] = "done"
    /\ pc' = [pc EXCEPT ![t] = "idle"]
    /\ op' = [op EXCEPT ![t] = "none"]
    /\ result' = [result EXCEPT ![t] = NoResult]
    /\ trail' = [trail EXCEPT ![t] = NoTrail]
    /\ UNCHANGED << creds, config, instance, stored, limiter, tokens, headers,
                    wake_at, workload, history, issued >>

\* -------------------------------------------------------------------- clock
\* Quantum seconds pass: every timestamp moves Quantum into the past.
Earlier(x, floor) == Max(x - Quantum, floor)
EarlierOpt(ea) == IF ea = None THEN None ELSE Some(Earlier(ea[1], now))
EarlierDict(d) ==
    [k \in DOMAIN d |-> IF k = "expires_at" THEN Earlier(d[k], now) ELSE d[k]]
Aged(h) ==
    SelectSeq([i \in 1 .. Len(h) |-> [h[i] EXCEPT !.age = @ + Quantum]],
              LAMBDA e : e.age < PERIOD)

Tick ==
    /\ expires_at' = EarlierOpt(expires_at)
    /\ last_reset' = Earlier(last_reset, now - PERIOD)
    /\ wake_at' = [t \in Threads |-> Earlier(wake_at[t], now)]
    /\ tokens' = [t \in Threads |-> EarlierDict(tokens[t])]
    /\ stored' = IF stored = None THEN None ELSE Some(EarlierDict(stored[1]))
    /\ history' = Aged(history)
    /\ UNCHANGED << access_token, refresh_token, config, instance, num_calls,
                    admitted, pc, op, headers, result, trail, workload, issued >>

\* ----------------------------------------------------------- specifications
\* A client shared by the threads of an application that makes MaxCalls
\* calls of get_resource and make_request.
Init ==
    /\ InitCreds
    /\ InitThreads
    /\ InitUsedLimiter
    /\ workload = MaxCalls

Next ==
    \/ \E t \in Threads : CallGetResource(t)
    \/ \E t \in Threads : RefreshPost(t)
    \/ \E t \in Threads : RefreshTransportFails(t)
    \/ \E t \in Threads, r \in Responses(NextGen) : RefreshRecv(t, r)
    \/ \E t \in Threads : Line59(t)
    \/ \E t \in Threads : Line60(t)
    \/ \E t \in Threads : Line61(t)
    \/ \E t \in Threads : UpdateStored(t)
    \/ \E t \in Threads : UpdateFails(t)
    \/ \E t \in Threads : Line108(t)
    \/ \E t \in Threads : CallMakeRequest(t)
    \/ \E t \in Threads : Limits(t)
    \/ \E t \in Threads : Retry(t)
    \/ \E t \in Threads, s \in Statuses : Dispatch(t, s)
    \/ \E t \in Threads : Return(t)
    \/ Tick

Spec == Init /\ [][Next]_vars

\* The same application, begun when the limiter has already counted the
\* whole budget of its window (made on another client).
InitSpent ==
    /\ InitCreds
    /\ InitThreads
    /\ num_calls = CALLS
    /\ last_reset = now
    /\ admitted = [i \in Instances |-> IF i = 2 THEN CALLS ELSE 0]
    /\ history = << >>
    /\ workload = MaxCalls

SpecSpent == InitSpent /\ [][Next]_vars

\* HTTP requests of make_request by the age of the instant they were sent
\* at, for the instants of the last PERIOD seconds.
Sent(h) ==
    IF h # << >> /\ h[1].age = 0
    THEN << [age |-> 0, n |-> h[1].n + 1] >> \o Tail(h)
    ELSE << [age |-> 0, n |-> 1] >> \o h

DispatchLogged(t, s) ==
    /\ Request(t, s)
    /\ history' = Sent(history)

\* An application that calls make_request for ever, on a limiter that has
\* counted nothing yet.
InitRate ==
    /\ client_id = "client_id"
    /\ client_secret = "client_secret"
    /\ access_token = 0
    /\ refresh_token = 0
    /\ expires_at = None
    /\ token_update_method = FALSE
    /\ stored = None
    /\ issued = 0
    /\ InitThreads
    /\ InitLimiter
    /\ workload = Unlimited

\* One thread makes the calls, one after the other; every HTTP request is
\* logged.
Sequential == {1}

NextSeq ==
    \/ \E t \in Sequential : CallMakeRequest(t)
    \/ \E t \in Sequential : Limits(t)
    \/ \E t \in Sequential : Retry(t)
    \/ \E t \in Sequential, s \in Statuses : DispatchLogged(t, s)
    \/ \E t \in Sequential : Return(t)
    \/ Tick

SpecSeq == InitRate /\ [][NextSeq]_vars

\* The threads of the application call make_request concurrently, under a
\* fair scheduler: a thread inside a call is not held up for ever, and the
\* clock goes on.
NextRate ==
    \/ \E t \in Threads : CallMakeRequest(t)
    \/ \E t \in Threads : Limits(t)
    \/ \E t \in Threads : Retry(t)
    \/ \E t \in Threads, s \in Statuses : Dispatch(t, s)
    \/ \E t \in Threads : Return(t)
    \/ Tick

\* The steps of a thread that is inside a call.
Runs(t) ==
    \/ Limits(t)
    \/ Retry(t)
    \/ \E s \in Statuses : Dispatch(t, s)
    \/ Return(t)

SpecRate ==
    /\ InitRate
    /\ [][NextRate]_vars
    /\ \A t \in Threads : WF_vars(Runs(t))
    /\ WF_vars(Tick)

\* Two clients in one process, each used by a thread of its own that calls
\* make_request for ever: the limiter, made when the class body ran, is the
\* one object behind the make_request of both (make_request reads no field
\* of self, so the fields of one client stand for both).
InitTwo ==
    /\ client_id = "client_id"
    /\ client_secret = "client_secret"
    /\ access_token = 0
    /\ refresh_token = 0
    /\ expires_at = None
    /\ token_update_method = FALSE
    /\ stored = None
    /\ issued = 0
    /\ instance = [t \in Threads |-> t]
    /\ InitCalls
    /\ InitLimiter
    /\ workload = Unlimited

SpecTwo == InitTwo /\ [][NextRate]_vars

\* An application with one thread that calls get_resource, one call after
\* the other and only while its token is valid, on a limiter that has counted
\* nothing yet; the token is good for longer than a window of the limiter.
InitGate ==
    /\ client_id = "client_id"
    /\ client_secret = "client_secret"
    /\ access_token = 0
    /\ refresh_token = 0
    /\ expires_at = Some(now + PERIOD + Quantum)
    /\ token_update_method = FALSE
    /\ stored = None
    /\ issued = 0
    /\ InitThreads
    /\ InitLimiter
    /\ workload = Unlimited

NextGate ==
    \/ \E t \in Sequential : InFuture(expires_at) /\ CallGetResource(t)
    \/ \E t \in Sequential : Line108(t)
    \/ \E t \in Sequential : Limits(t)
    \/ \E t \in Sequential : Retry(t)
    \/ \E t \in Sequential, s \in Statuses : Dispatch(t, s)
    \/ \E t \in Sequential : Return(t)
    \/ Tick

SpecGate == InitGate /\ [][NextGate]_vars

\* ------------------------------------------------------------------- claims
CredFields == {"access_token", "refresh_token", "expires_at"}
RefreshLines == {"line45", "line50", "line59", "line60", "line61", "line64"}
RequestLines == {"limits", "sleep", "line79"}

\* The refresh of t's call failed at the token request: no response, a body
\* that is not JSON, or a dict without one of the expected members.
RefreshFailed(t) ==
    /\ pc[t] = "done"
    /\ result[t].kind \in {"ConnectionError", "JSONDecodeError", "KeyError"}

\* C1: a call of get_resource made while expires_at is set and strictly later
\* than the clock performs no refresh: it sends nothing to the token endpoint
\* and never enters refresh_tokens.
C1_NoRefreshWhileValid ==
    \A t \in Threads :
        (op[t] = "get_resource" /\ trail[t].valid) =>
            /\ trail[t].posts = 0
            /\ pc[t] \notin RefreshLines

C1_Witness ==
    \E t \in Threads :
        /\ pc[t] = "done" /\ op[t] = "get_resource"
        /\ trail[t].valid /\ trail[t].gets = 1 /\ trail[t].posts = 0

\* C2: a call of get_resource made while expires_at is unset or not later
\* than the clock performs exactly one refresh, and the refresh is over
\* before the resource request of the call is sent.
C2_OneRefreshBeforeGet ==
    \A t \in Threads :
        (op[t] = "get_resource" /\ ~trail[t].valid) =>
            /\ trail[t].posts <= 1
            /\ pc[t] = "done" => trail[t].posts = 1
            /\ (pc[t] \in {"line108"} \cup RequestLines \/ trail[t].gets > 0) =>
                   (trail[t].posts = 1 /\ trail[t].refreshed)

C2_Witness ==
    \E t \in Threads :
        /\ pc[t] = "done" /\ op[t] = "get_resource"
        /\ ~trail[t].valid /\ trail[t].posts = 1 /\ trail[t].gets = 1

\* C3: refresh_tokens is all or nothing: after a failed refresh the three
\* fields hold the values they had before, after a successful one all three
\* have been set.
C3_AllOrNothing ==
    \A t \in Threads :
        /\ RefreshFailed(t) => trail[t].changed = {}
        /\ trail[t].refreshed => trail[t].wrote = CredFields

\* The HTTP requests make_request has sent in the last PERIOD seconds.
RECURSIVE Total(_)
Total(h) == IF h = << >> THEN 0 ELSE h[1].n + Total(Tail(h))

\* C4: in any interval of PERIOD seconds, whatever its start, make_request
\* sends at most CALLS HTTP requests.
C4_SlidingWindow == Total(history) <= CALLS

\* No call of make_request ends with the limiter's refusal: it ends with the
\* response or with the error of a request that was sent.
NeverRejected ==
    \A t \in Threads :
        pc[t] = "done" =>
            /\ result[t].kind \in {"response", "Exception"}
            /\ trail[t].gets = 1

\* C5: a call of make_request that finds the budget of the window used up is
\* never rejected, and as time goes on its request is sent in the end.
C5_EveryCallerDispatched ==
    /\ []NeverRejected
    /\ \A t \in Threads : (pc[t] = "sleep") ~> (pc[t] = "line79")

\* C6: with a token_update_method, a refresh that succeeds calls it exactly
\* once before refresh_tokens returns, with the dict whose access_token,
\* refresh_token and expires_at the refresh has written to self, where
\* expires_at is the clock at the refresh plus expires_in; a refresh that
\* fails at the token request does not call it.
C6_State ==
    \A t \in Threads :
        /\ trail[t].cbs <= 1
        /\ RefreshFailed(t) => trail[t].cbs = 0
        /\ trail[t].refreshed => trail[t].cbs = (IF token_update_method THEN 1 ELSE 0)
        /\ (pc[t] = "line64" /\ trail[t].intact) =>
               /\ access_token = tokens[t]["access_token"]
               /\ refresh_token = tokens[t]["refresh_token"]
               /\ expires_at = Some(tokens[t]["expires_at"])

C6_Step(t) ==
    /\ (pc[t] = "line50" /\ pc'[t] = "line59") =>
           tokens'[t]["expires_at"] = now + tokens'[t]["expires_in"]
    /\ (pc[t] = "line64" /\ pc'[t] = "line108" /\ token_update_method) =>
           stored' = Some(tokens[t])

C6_StoredOncePerRefresh ==
    /\ []C6_State
    /\ [][\A t \in Threads : C6_Step(t)]_vars

C6_Witness ==
    \E t \in Threads :
        /\ pc[t] = "line108" /\ trail[t].refreshed /\ trail[t].cbs = 1
        /\ stored # None
        /\ stored[1]["access_token"] = access_token
        /\ Some(stored[1]["expires_at"]) = expires_at

\* C7: make_request returns the response when its status is 200 and raises
\* an exception that carries the status for every other status.
C7_StatusDecides ==
    \A t \in Threads :
        (pc[t] = "done" /\ trail[t].gets > 0) =>
            IF result[t].status = 200
            THEN result[t].kind = "response"
            ELSE result[t].kind = "Exception"

C7_Witness ==
    \E t \in Threads :
        /\ pc[t] = "done" /\ trail[t].gets = 1
        /\ result[t] = [kind |-> "Exception", status |-> 204]

\* C8: when the refresh of a get_resource call fails, the call fails, sends
\* no resource request, leaves access_token as it was and leaves the client
\* expired.
C8_FailedRefreshKeepsState ==
    \A t \in Threads :
        (op[t] = "get_resource" /\ RefreshFailed(t)) =>
            /\ trail[t].gets = 0
            /\ "access_token" \notin trail[t].changed
            /\ "expires_at" \notin trail[t].wrote

\* C9: the Authorization header of a resource request of get_resource is
\* "Bearer" with the access_token self holds after the call's expiry check:
\* the header is made from self.access_token once the refresh of the call,
\* if there was one, has written it, and goes unchanged into the request.
C9_State ==
    \A t \in Threads :
        (op[t] = "get_resource" /\ pc[t] \in RequestLines) =>
            /\ headers[t] # None
            /\ headers[t][1][1] = "Bearer"
            /\ ~trail[t].valid =>
                   (trail[t].refreshed /\ "access_token" \in trail[t].wrote)

C9_Step(t) ==
    /\ (pc[t] = "line108" /\ pc'[t] # "line108") =>
           headers'[t] = Some(<< "Bearer", access_token >>)
    /\ (pc[t] \in RequestLines /\ pc'[t] \in RequestLines) =>
           headers'[t] = headers[t]

C9_BearerIsCurrentToken ==
    /\ []C9_State
    /\ [][\A t \in Threads : C9_Step(t)]_vars

C9_Witness ==
    \E t \in Threads :
        /\ pc[t] = "line79" /\ op[t] = "get_resource"
        /\ trail[t].refreshed /\ "access_token" \in trail[t].changed
        /\ headers[t] = Some(<< "Bearer", access_token >>)

\* C10: nothing is tried again after it failed: a call sends at most one
\* request to the token endpoint and at most one HTTP request from
\* make_request, and the call is over once that request is answered; only
\* a call whose request has not been sent yet waits for the rate limit.
C10_SingleAttempt ==
    \A t \in Threads :
        /\ trail[t].posts <= 1
        /\ trail[t].gets <= 1
        /\ pc[t] \in RequestLines => trail[t].gets = 0
        /\ trail[t].gets = 1 => pc[t] = "done"

C10_Witness ==
    \E t \in Threads :
        /\ pc[t] = "done" /\ result[t].kind = "Exception"
        /\ trail[t].posts = 1 /\ trail[t].gets = 1 /\ trail[t].slept = 1

\* C11: only the refresh writes the credentials: no step of a call of
\* make_request, nor of a call of get_resource that found expires_at in the
\* future, changes access_token, refresh_token or expires_at; these change
\* only at lines 59-61 (the passing of time apart, which moves expires_at
\* against the clock); client_id, client_secret and token_update_method
\* never change.
C11_Step(t) ==
    LET o == IF pc[t] = "idle" THEN op'[t] ELSE op[t]
        v == IF pc[t] = "idle" THEN trail'[t].valid ELSE trail[t].valid
    IN  (pc'[t] # pc[t] /\ (o = "make_request" \/ (o = "get_resource" /\ v)))
            => creds' = creds

C11_Written ==
    \/ access_token' # access_token
    \/ refresh_token' # refresh_token
    \/ expires_at' \notin {expires_at, EarlierOpt(expires_at)}

C11_OnlyRefreshWrites ==
    [][ /\ config' = config
        /\ \A t \in Threads : C11_Step(t)
        /\ C11_Written =>
               \E t \in Threads :
                   pc[t] \in {"line59", "line60", "line61"} /\ pc'[t] # pc[t]
      ]_vars

C11_Witness ==
    \E t, u \in Threads :
        /\ pc[t] = "done" /\ op[t] = "make_request" /\ trail[t].gets = 1
        /\ pc[u] = "done" /\ op[u] = "get_resource"
        /\ trail[u].valid /\ trail[u].gets = 1

\* The calls the limiter has let through since its last reset.
Admitted == admitted[1] + admitted[2]

\* C12: sequential get_resource calls with a valid token: a call that is
\* among the first CALLS of the limiter's window is sent without any sleep;
\* a call sleeps only when the window has already counted CALLS calls, it
\* sleeps to the end of that window, and its request is sent as the first of
\* the next window.
C12_Step(t) ==
    /\ (pc[t] = "limits" /\ pc'[t] = "line79") =>
           (trail'[t].slept = 0 /\ Admitted' <= CALLS)
    /\ (pc[t] = "limits" /\ pc'[t] = "sleep") =>
           /\ ~WindowElapsed /\ num_calls >= CALLS /\ Admitted = CALLS
           /\ wake_at'[t] = last_reset + PERIOD
    /\ (pc[t] = "sleep" /\ pc'[t] = "line79") =>
           (WindowElapsed /\ num_calls' = 1 /\ trail'[t].slept = 1)
    /\ (pc[t] = "sleep" /\ pc'[t] = "sleep") => num_calls' = num_calls

C13_CanStep(u) ==
    /\ (pc[u] = "idle" /\ CanCall) => ENABLED CallGetResource(u)
    /\ pc[u] = "line45" => ENABLED RefreshPost(u)
    /\ pc[u] = "line50" => ENABLED (\E r \in Responses(NextGen) : RefreshRecv(u, r))
    /\ pc[u] = "line59" => ENABLED Line59(u)
    /\ pc[u] = "line60" => ENABLED Line60(u)
    /\ pc[u] = "line61" => ENABLED Line61(u)
    /\ pc[u] = "line64" => ENABLED UpdateStored(u)
    /\ pc[u] = "line108" => ENABLED Line108(u)
    /\ pc[u] = "limits" => ENABLED Limits(u)

C13_SleeperHoldsNoLock ==
    \A t, u \in Threads :
        (t # u /\ pc[t] = "sleep" /\ op[t] = "get_resource") => C13_CanStep(u)

C13_Witness ==
    \E t, u \in Threads :
        /\ t # u
        /\ pc[t] = "sleep" /\ op[t] = "get_resource" /\ trail[t].slept = 1
        /\ op[u] = "get_resource" /\ trail[u].sleeper
        /\ ~trail[u].valid /\ trail[u].refreshed
        /\ "access_token" \in trail[u].changed
        /\ pc[u] = "sleep"

\* C14: refreshes are not coalesced: a call of get_resource that finds the
\* token expired enters refresh_tokens whatever the other threads are doing,
\* its POST is never held back, and the POST carries the refresh_token self
\* holds at that moment; so two calls can both send the same refresh token.
C14_Step(t) ==
    /\ (pc[t] = "idle" /\ op'[t] = "get_resource"
            /\ (expires_at = None \/ expires_at[1] <= now)) => pc'[t] = "line45"
    /\ (pc[t] = "line45" /\ pc'[t] = "line50") =>
           trail'[t].sent = Some(refresh_token)

C14_NotCoalesced ==
    /\ [](\A t \in Threads : pc[t] = "line45" => ENABLED RefreshPost(t))
    /\ [][\A t \in Threads : C14_Step(t)]_vars

C14_Witness ==
    \E t, u \in Threads :
        /\ t # u
        /\ pc[t] = "line59" /\ pc[u] = "line50"
        /\ trail[t].sent # None /\ trail[u].sent = trail[t].sent
        /\ trail[t].sent = Some(refresh_token)

\* C15: the limiter counts atomically: every attempt, of a new call or of
\* a call waking from its sleep, adds exactly one to the counter (or sets it
\* to one when it resets the window), and between two resets at most CALLS
\* attempts are let through to the request, whatever the interleaving.
C15_Counts ==
    \/ num_calls' = num_calls
    \/ num_calls' = (IF WindowElapsed THEN 0 ELSE num_calls) + 1

C16_ValidAtDispatch ==
    [][\A t \in Threads :
          (op[t] = "get_resource" /\ trail[t].slept > 0
              /\ pc[t] = "line79" /\ pc'[t] = "done") =>
              InFuture(expires_at)]_vars

\* C17: when no refresh is in progress, access_token, refresh_token and
\* expires_at of self come from one token response, and the dict last given
\* to token_update_method holds the same three values; stated for the
\* states where the calls of both threads have each completed a refresh.
C17_OneResponse ==
    (\A t \in Threads : trail[t].refreshed /\ pc[t] \notin RefreshLines) =>
        /\ access_token = refresh_token
        /\ token_update_method =>
               /\ stored # None
               /\ stored[1]["access_token"] = access_token
               /\ stored[1]["refresh_token"] = refresh_token
               /\ Some(stored[1]["expires_at"]) = expires_at

\* C18 as stated: each client has a budget of its own: a call is refused by
\* the limiter only when CALLS calls of its own client have been let
\* through in the window.
C18_OwnBudget ==
    [][\A t \in Threads :
          (pc[t] = "limits" /\ pc'[t] = "sleep") =>
              admitted[instance[t]] = CALLS]_vars

\* C18, amended: the budget belongs to the class and is shared by all the
\* clients of the process: a call is refused exactly when the limiter has
\* counted CALLS calls in the window, whichever clients made them, and the
\* clients together are let through at most CALLS times per window.
C18_Step(t) ==
    /\ (pc[t] = "limits" /\ pc'[t] = "sleep") =>
           (~WindowElapsed /\ num_calls >= CALLS /\ Admitted = CALLS)
    /\ (pc[t] = "limits" /\ pc'[t] = "line79") =>
           (WindowElapsed \/ num_calls < CALLS)

C18_SharedBudget ==
    /\ [](admitted[1] + admitted[2] <= CALLS)
    /\ [][\A t \in Threads : C18_Step(t)]_vars

C18_Witness ==
    \E t, u \in Threads :
        /\ instance[t] # instance[u]
        /\ pc[t] = "sleep" /\ trail[t].slept = 1
        /\ admitted[instance[t]] = 0
        /\ admitted[instance[u]] = CALLS

\* C19: the fields of self are written before token_update_method is
\* called: when it raises, the call of get_resource ends with that exception
\* and without a resource request, access_token, refresh_token and
\* expires_at hold the values of the token response, and nothing has been
\* stored.
C19_State ==
    \A t \in Threads :
        (trail[t].cbs = 1 /\ ~trail[t].refreshed) =>
            /\ pc[t] = "done" /\ result[t].kind = "CallbackError"
            /\ trail[t].gets = 0
            /\ trail[t].wrote = CredFields

C19_Step(t) ==
    (pc[t] = "line64" /\ pc'[t] = "done") =>
        /\ stored' = stored /\ creds' = creds
        /\ trail[t].intact =>
               /\ access_token = tokens[t]["access_token"]
               /\ refresh_token = tokens[t]["refresh_token"]
               /\ expires_at = Some(tokens[t]["expires_at"])

C19_WrittenBeforeStored ==
    /\ []C19_State
    /\ [][\A t \in Threads : C19_Step(t)]_vars

C19_Witness ==
    \E t \in Threads :
        /\ pc[t] = "done" /\ result[t].kind = "CallbackError"
        /\ trail[t].changed = CredFields /\ trail[t].intact
        /\ access_token = 1 /\ refresh_token = 1 /\ expires_at = Some(now + Quantum)
        /\ stored = None

====
